---- MODULE Spec2Model ----
(***************************************************************************)
(* State-machine model of the two React components of the repository:      *)
(*   src/src/components/DataTable/DataTable.tsx   (DataTable)              *)
(*   src/src/components/InputField/InputField.tsx (InputField)             *)
(*                                                                         *)
(* A function component is modelled by the hook state React keeps for it   *)
(* (the value each setState call leaves in the update queue), the values   *)
(* captured by the closures of its last committed render, the passive      *)
(* effects that commit left to run, and the DOM node behind its ref.       *)
(* Event handlers read the closure of the last commit; a commit reads the  *)
(* hook state.                                                             *)
(***************************************************************************)
EXTENDS Integers, Sequences, FiniteSets, TLC

\* ------------------------------------------------------------- bounds
\* Row identifiers of the selection model are 1..MaxId.
MaxId == 3
\* A data collection of the selection model has at most MaxRows rows.
MaxRows == 2
\* Row identifiers of the sorting model are 1..MaxSortId.
MaxSortId == 4
\* A data collection of the sorting model has at most MaxSortRows rows.
MaxSortRows == 3
\* At most MaxBatch checkbox change events are handled between two commits.
MaxBatch == 2
\* onClear invocations counted up to MaxClears.
MaxClears == 2

VARIABLES
  \* DataTable props of the last commit
  data, columns, loading, selectable,
  \* DataTable hook state (useState), including queued updates
  sortConfig, selectedRowIds,
  \* values of the hook state captured by the last committed render
  rSortConfig, rSelectedRowIds,
  \* React bookkeeping: a re-render is scheduled; the selectedRowIds reference
  \* changed since the last commit; passive effects left to run
  renderPending, selDirty, effectsPending,
  \* the DOM node behind selectAllRef
  selectAllRef,
  \* history: the last commit was the first to receive a replaced data reference
  freshData,
  \* history: selection updates issued since the last commit
  handled,
  \* history: argument of the most recent onRowSelect call
  lastPayload,
  \* history: the most recent requestSort click
  sortHist,
  \* InputField props, hook state and history
  inputProps, isPasswordVisible, onClearCalls, inputHist

tableVars == <<data, columns, loading, selectable, sortConfig, selectedRowIds, rSortConfig, rSelectedRowIds, renderPending, selDirty, effectsPending, selectAllRef, freshData, handled, lastPayload, sortHist>>

inputVars == <<inputProps, isPasswordVisible, onClearCalls, inputHist>>

vars == <<tableVars, inputVars>>

\* ------------------------------------------------------------- DataTable: rows and columns

\* A field value: a number, or undefined (an optional field left out).
Num(v) == [defined |-> TRUE, v |-> v]

UndefinedValue == [defined |-> FALSE, v |-> 0]

\* aValue < bValue: false whenever an operand is undefined.
JsLess(x, y) == x.defined /\ y.defined /\ x.v < y.v

\* A row T extends { id }: the two sortable fields of the stories' UserData,
\* name always present, age optional.
Row(id) == [id |-> id, name |-> Num(id % 2), age |-> IF (id \div 2) % 3 = 2 THEN UndefinedValue ELSE Num((id \div 2) % 3)]

\* All sequences of at most n rows with ids in 1..m.
RECURSIVE RowSeqs(_, _)
RowSeqs(n, m) == IF n = 0 THEN {<<>>} ELSE LET shorter == RowSeqs(n - 1, m) IN shorter \cup {Append(s, Row(id)) : s \in {t \in shorter : Len(t) = n - 1}, id \in 1..m}

HasUniqueIds(d) == \A i, j \in 1..Len(d) : i # j => d[i].id # d[j].id

\* The data prop: rows with unique ids.
DataSets == {d \in RowSeqs(MaxRows, MaxId) : HasUniqueIds(d)}

\* The data prop of the sorting model.
SortDataSets == {d \in RowSeqs(MaxSortRows, MaxSortId) : HasUniqueIds(d)}

IdSet(d) == {d[i].id : i \in 1..Len(d)}

\* Column<T>; sorter "none" is an absent sorter.
Col(key, dataIndex, sortable, sorter) == [key |-> key, dataIndex |-> dataIndex, sortable |-> sortable, sorter |-> sorter]

\* The columns of DataTable.stories.tsx (email replaced by the id field).
StoryColumns == <<Col("name", "name", TRUE, "none"), Col("id", "id", FALSE, "none"), Col("age", "age", TRUE, "none")>>

\* Two sortable columns reading the same dataIndex, the second with a custom sorter.
SharedIndexColumns == <<Col("age", "age", TRUE, "none"), Col("ageByName", "age", TRUE, "byName"), Col("name", "name", TRUE, "none")>>

\* Custom sorters on every sortable column.
SorterColumns == <<Col("name", "name", TRUE, "reverseName"), Col("age", "age", TRUE, "byName")>>

ColumnSets == {StoryColumns, SharedIndexColumns, SorterColumns}

\* Caller-supplied sorter functions (a: T, b: T) => number.
Sorter(name, a, b) == IF name = "byName" THEN a.name.v - b.name.v ELSE b.name.v - a.name.v

\* sortConfig = null
NoSort == [key |-> "null", direction |-> "null"]

SortConfigOf(key, direction) == [key |-> key, direction |-> direction]

\* ------------------------------------------------------------- DataTable: sortedData

SetMin(S) == CHOOSE x \in S : \A y \in S : x <= y

\* columns.find((c) => c.dataIndex === key): index of the first match, 0 if none.
FindCol(cols, key) == LET I == {i \in 1..Len(cols) : cols[i].dataIndex = key} IN IF I = {} THEN 0 ELSE SetMin(I)

\* .map((item, idx) => ({ item, idx }))
Decorate(d) == [i \in 1..Len(d) |-> [item |-> d[i], idx |-> i - 1]]

\* The primary comparison: the column's sorter, else < / > on the field.
PrimaryCmp(a, b, cfg, cols) == LET c == FindCol(cols, cfg.key) IN IF c # 0 /\ cols[c].sorter # "none" THEN Sorter(cols[c].sorter, a, b) ELSE IF JsLess(a[cfg.key], b[cfg.key]) THEN -1 ELSE IF JsLess(b[cfg.key], a[cfg.key]) THEN 1 ELSE 0

\* A tie-break that follows the direction, as sorting ascending and reversing would.
CompareTieFlipped(a, b, cfg, cols) == LET cmp == PrimaryCmp(a.item, b.item, cfg, cols) multiplier == IF cfg.direction = "ascending" THEN 1 ELSE -1 IN IF cmp # 0 THEN cmp * multiplier ELSE (a.idx - b.idx) * multiplier

\* The comparator handed to Array.prototype.sort.
Compare(a, b, cfg, cols) == LET cmp == PrimaryCmp(a.item, b.item, cfg, cols) multiplier == IF cfg.direction = "ascending" THEN 1 ELSE -1 IN IF cmp # 0 THEN cmp * multiplier ELSE a.idx - b.idx

\* Array.prototype.sort, as an insertion sort driven by the comparator. Every
\* sort algorithm returns this order when the comparator is consistent; when it
\* is not, the order is implementation-defined and this is one such order.
InsertSorted(x, s, cfg, cols) == LET before == {i \in 1..Len(s) : Compare(x, s[i], cfg, cols) < 0} k == IF before = {} THEN Len(s) + 1 ELSE SetMin(before) IN SubSeq(s, 1, k - 1) \o <<x>> \o SubSeq(s, k, Len(s))

RECURSIVE ArraySort(_, _, _)
ArraySort(s, cfg, cols) == IF Len(s) = 0 THEN <<>> ELSE InsertSorted(s[Len(s)], ArraySort(SubSeq(s, 1, Len(s) - 1), cfg, cols), cfg, cols)

\* useMemo(() => ..., [data, sortConfig, columns])
SortedData(d, cfg, cols) == IF cfg # NoSort THEN LET sorted == ArraySort(Decorate(d), cfg, cols) IN [i \in 1..Len(d) |-> sorted[i].item] ELSE d

\* sortedData of the last commit.
sortedData == SortedData(data, rSortConfig, columns)

\* ------------------------------------------------------------- DataTable: render

\* The three render states, in priority order.
View(d, l) == IF l THEN "loading" ELSE IF Len(d) = 0 THEN "empty" ELSE "table"

\* {selectable && <th><input ref={selectAllRef} .../></th>}
HeaderMounted(d, l, s) == View(d, l) = "table" /\ s

NullRef == [current |-> "null", indeterminate |-> FALSE]

\* checked={selectedRowIds.size === data.length && data.length > 0}
HeaderChecked == Cardinality(rSelectedRowIds) = Len(data) /\ Len(data) > 0

\* const isSorted = sortConfig?.key === col.dataIndex
IsSorted(col) == rSortConfig # NoSort /\ rSortConfig.key = col.dataIndex

\* aria-sort of a header cell
AriaSort(col) == IF col.sortable THEN (IF IsSorted(col) THEN rSortConfig.direction ELSE "none") ELSE "undefined"

\* One render and commit of DataTable with props d, l, s; changed: data is a new reference.
Commit(d, l, s, changed) ==
  /\ data' = d
  /\ loading' = l
  /\ selectable' = s
  /\ rSortConfig' = sortConfig
  /\ rSelectedRowIds' = selectedRowIds
  /\ renderPending' = FALSE
  /\ selDirty' = FALSE
  /\ effectsPending' = (IF selDirty \/ changed THEN {"indeterminate"} ELSE {}) \cup (IF changed THEN {"clear"} ELSE {})
  /\ selectAllRef' = IF HeaderMounted(d, l, s) THEN (IF selectAllRef.current = "input" THEN selectAllRef ELSE [current |-> "input", indeterminate |-> FALSE]) ELSE NullRef
  /\ freshData' = changed
  /\ handled' = <<>>
  /\ UNCHANGED <<columns, sortConfig, selectedRowIds, lastPayload, sortHist>>

\* A re-render scheduled by a state update.
Render ==
  /\ renderPending
  /\ effectsPending = {}
  /\ Commit(data, loading, selectable, FALSE)
  /\ UNCHANGED inputVars

\* The parent passes a new data array (a new reference, whatever its content).
ReplaceData(d) ==
  /\ effectsPending = {}
  /\ Commit(d, loading, selectable, TRUE)
  /\ UNCHANGED inputVars

\* The parent flips the loading prop.
SetLoading ==
  /\ effectsPending = {}
  /\ Commit(data, ~loading, selectable, FALSE)
  /\ UNCHANGED inputVars

\* The parent flips the selectable prop.
SetSelectable ==
  /\ effectsPending = {}
  /\ Commit(data, loading, ~selectable, FALSE)
  /\ UNCHANGED inputVars

\* ------------------------------------------------------------- DataTable: effects

Update(op, id, checked) == [op |-> op, id |-> id, checked |-> checked]

\* The passive effects of the last commit, in declaration order.
RunEffects ==
  /\ effectsPending # {}
  /\ selectAllRef' = IF "indeterminate" \in effectsPending /\ selectAllRef.current = "input" THEN [selectAllRef EXCEPT !.indeterminate = Cardinality(rSelectedRowIds) > 0 /\ Cardinality(rSelectedRowIds) < Len(data)] ELSE selectAllRef
  /\ IF "clear" \in effectsPending
       THEN /\ selectedRowIds' = {}
            /\ selDirty' = TRUE
            /\ renderPending' = TRUE
            /\ handled' = Append(handled, Update("clear", 0, FALSE))
       ELSE UNCHANGED <<selectedRowIds, selDirty, renderPending, handled>>
  /\ effectsPending' = {}
  /\ UNCHANGED <<data, columns, loading, selectable, sortConfig, rSortConfig, rSelectedRowIds, freshData, lastPayload, sortHist>>
  /\ UNCHANGED inputVars

\* ------------------------------------------------------------- DataTable: handlers

\* data.filter((row) => newSelectedRowIds.has(row.id))
FilterSelected(d, ids) == SelectSeq(d, LAMBDA row : row.id \in ids)

\* setSortConfig's functional update.
NextSortConfig(prev, key) == IF prev # NoSort /\ prev.key = key /\ prev.direction = "ascending" THEN SortConfigOf(key, "descending") ELSE SortConfigOf(key, "ascending")

\* A click on the header button of column c.
RequestSort(c) ==
  /\ View(data, loading) = "table"
  /\ columns[c].sortable
  /\ sortConfig' = NextSortConfig(sortConfig, columns[c].dataIndex)
  /\ renderPending' = TRUE
  /\ sortHist' = [key |-> columns[c].key, prevKey |-> sortHist.key, prev |-> sortConfig]
  /\ UNCHANGED <<data, columns, loading, selectable, selectedRowIds, rSortConfig, rSelectedRowIds, selDirty, effectsPending, selectAllRef, freshData, handled, lastPayload>>
  /\ UNCHANGED inputVars

\* A change event of the header checkbox; the browser flips the rendered checked value.
HandleSelectAll ==
  /\ HeaderMounted(data, loading, selectable)
  /\ Len(handled) < MaxBatch
  /\ LET checked == ~HeaderChecked
         newSelectedRowIds == IF checked THEN IdSet(data) ELSE {}
     IN /\ selectedRowIds' = newSelectedRowIds
        /\ lastPayload' = FilterSelected(data, newSelectedRowIds)
        /\ handled' = Append(handled, Update("selectAll", 0, checked))
  /\ selDirty' = TRUE
  /\ renderPending' = TRUE
  /\ UNCHANGED <<data, columns, loading, selectable, sortConfig, rSortConfig, rSelectedRowIds, effectsPending, selectAllRef, freshData, sortHist>>
  /\ UNCHANGED inputVars

\* A change event of the checkbox of row id; the browser flips the rendered checked value.
HandleSelectRow(id) ==
  /\ HeaderMounted(data, loading, selectable)
  /\ id \in IdSet(data)
  /\ Len(handled) < MaxBatch
  /\ LET checked == id \notin rSelectedRowIds
         newSelectedRowIds == IF checked THEN rSelectedRowIds \cup {id} ELSE rSelectedRowIds \ {id}
     IN /\ selectedRowIds' = newSelectedRowIds
        /\ lastPayload' = FilterSelected(data, newSelectedRowIds)
        /\ handled' = Append(handled, Update("selectRow", id, checked))
  /\ selDirty' = TRUE
  /\ renderPending' = TRUE
  /\ UNCHANGED <<data, columns, loading, selectable, sortConfig, rSortConfig, rSelectedRowIds, effectsPending, selectAllRef, freshData, sortHist>>
  /\ UNCHANGED inputVars

\* ------------------------------------------------------------- InputField

\* An absent optional string prop.
Undefined == "<undefined>"

\* JavaScript truthiness of an optional string.
Truthy(s) == s # Undefined /\ s # ""

OptionalStrings == {Undefined, "", "text"}

InputPropsSet == [helperText : OptionalStrings, errorMessage : OptionalStrings, value : OptionalStrings, disabled : BOOLEAN, invalid : BOOLEAN, loading : BOOLEAN, showClearButton : BOOLEAN, type : {"text", "password"}]

\* The defaults of the destructured props.
DefaultInputProps == [helperText |-> Undefined, errorMessage |-> Undefined, value |-> Undefined, disabled |-> FALSE, invalid |-> FALSE, loading |-> FALSE, showClearButton |-> FALSE, type |-> "text"]

\* aria-describedby: the suffix of the id it names, or Undefined.
DescribedById(p) == IF p.invalid /\ Truthy(p.errorMessage) THEN "error" ELSE IF Truthy(p.helperText) THEN "help" ELSE Undefined

\* {helperText && !invalid && <p id=...-help>}
HelperRendered(p) == Truthy(p.helperText) /\ ~p.invalid

\* {errorMessage && invalid && <p id=...-error>}
ErrorRendered(p) == Truthy(p.errorMessage) /\ p.invalid

\* {showClearButton && value && !disabled && <button onClick={onClear}>}
ClearButtonRendered(p) == p.showClearButton /\ Truthy(p.value) /\ ~p.disabled

\* disabled={disabled || loading}
InputDisabled(p) == p.disabled \/ p.loading

\* {loading && <div>spinner</div>}
SpinnerRendered(p) == p.loading

\* const currentType = type === 'password' && isPasswordVisible ? 'text' : type
CurrentType(p, visible) == IF p.type = "password" /\ visible THEN "text" ELSE p.type

InputEvent(op) == [op |-> op, value |-> inputProps.value, visible |-> isPasswordVisible]

\* The parent re-renders the field with one prop changed.
SetInputProp(p) ==
  /\ Cardinality({n \in DOMAIN p : p[n] # inputProps[n]}) = 1
  /\ inputProps' = p
  /\ inputHist' = InputEvent("props")
  /\ UNCHANGED <<isPasswordVisible, onClearCalls>>
  /\ UNCHANGED tableVars

\* A click on the clear button: onClick={onClear}.
ClickClear ==
  /\ ClearButtonRendered(inputProps)
  /\ onClearCalls < MaxClears
  /\ onClearCalls' = onClearCalls + 1
  /\ inputHist' = InputEvent("clear")
  /\ UNCHANGED <<inputProps, isPasswordVisible>>
  /\ UNCHANGED tableVars

\* A click on the visibility button: setIsPasswordVisible((prev) => !prev).
TogglePasswordVisibility ==
  /\ inputProps.type = "password"
  /\ ~InputDisabled(inputProps)
  /\ isPasswordVisible' = ~isPasswordVisible
  /\ inputHist' = InputEvent("toggle")
  /\ UNCHANGED <<inputProps, onClearCalls>>
  /\ UNCHANGED tableVars

\* ------------------------------------------------------------- specifications

\* InputField after its first render with the default props.
InputIdle ==
  /\ inputProps = DefaultInputProps
  /\ isPasswordVisible = FALSE
  /\ onClearCalls = 0
  /\ inputHist = [op |-> "none", value |-> Undefined, visible |-> FALSE]

\* DataTable after mounting with props d, cols, l, s: the first commit, its two
\* effects and the re-render the selection reset schedules have run.
Mounted(d, cols, l, s) ==
  /\ data = d
  /\ columns = cols
  /\ loading = l
  /\ selectable = s
  /\ sortConfig = NoSort
  /\ selectedRowIds = {}
  /\ rSortConfig = NoSort
  /\ rSelectedRowIds = {}
  /\ renderPending = FALSE
  /\ selDirty = FALSE
  /\ effectsPending = {}
  /\ selectAllRef = IF HeaderMounted(d, l, s) THEN [current |-> "input", indeterminate |-> FALSE] ELSE NullRef
  /\ freshData = FALSE
  /\ handled = <<>>
  /\ lastPayload = <<>>
  /\ sortHist = [key |-> "none", prevKey |-> "none", prev |-> NoSort]

\* The selectable DataTable of the stories under every operation.
Init == (\E d \in DataSets : Mounted(d, StoryColumns, FALSE, TRUE)) /\ InputIdle

Next ==
  \/ Render
  \/ RunEffects
  \/ \E d \in DataSets : ReplaceData(d)
  \/ SetLoading
  \/ SetSelectable
  \/ \E c \in 1..Len(columns) : RequestSort(c)
  \/ HandleSelectAll
  \/ \E id \in 1..MaxId : HandleSelectRow(id)

Spec == Init /\ [][Next]_vars

\* Sorting alone: every data collection and column set under header clicks.
InitSort == (\E d \in SortDataSets, cols \in ColumnSets : Mounted(d, cols, FALSE, FALSE)) /\ InputIdle

NextSort ==
  \/ Render
  \/ \E c \in 1..Len(columns) : RequestSort(c)

SpecSort == InitSort /\ [][NextSort]_vars

\* InputField alone: from the default props through every combination of props.
InitInput == Mounted(<<>>, StoryColumns, FALSE, FALSE) /\ InputIdle

NextInput ==
  \/ \E p \in InputPropsSet : SetInputProp(p)
  \/ ClickClear
  \/ TogglePasswordVisibility

SpecInput == InitInput /\ [][NextInput]_vars

\* ------------------------------------------------------------- sort claims (SpecSort)

\* The sortable columns whose header is shown as the active sort column.
ActiveColumns == {i \in 1..Len(columns) : columns[i].sortable /\ AriaSort(columns[i]) \in {"ascending", "descending"}}

DataIndexOfKey(key) == columns[CHOOSE i \in 1..Len(columns) : columns[i].key = key].dataIndex

\* C1: with columns told apart by their key, a click on the column clicked last
\* flips its direction (ascending -> descending -> ascending), a click on any
\* other column leaves the clicked column active and ascending, and at most one
\* sortable column is shown as the active sort column.
C1_SortStateMachine ==
  /\ Cardinality(ActiveColumns) <= 1
  /\ sortHist.key = "none" => sortConfig = NoSort
  /\ sortHist.key # "none" =>
       /\ sortConfig.key = DataIndexOfKey(sortHist.key)
       /\ sortConfig.direction = IF sortHist.prevKey = sortHist.key /\ sortHist.prev.direction = "ascending" THEN "descending" ELSE "ascending"

\* Position of row i of data in the rendered order.
SortedPos(i) == CHOOSE k \in 1..Len(sortedData) : sortedData[k].id = data[i].id

\* The claim's statement about the rendered order.
SortedAsClaimed ==
  /\ Len(sortedData) = Len(data)
  /\ \A i \in 1..Len(data) : Cardinality({k \in 1..Len(sortedData) : sortedData[k] = data[i]}) = 1
  /\ \A i, j \in 1..Len(data) : i < j =>
       LET cmp == PrimaryCmp(data[i], data[j], rSortConfig, columns)
           iFirst == SortedPos(i) < SortedPos(j)
       IN IF cmp = 0 THEN iFirst ELSE (iFirst <=> ((cmp < 0) <=> (rSortConfig.direction = "ascending")))

\* C2, as claimed: under every active sortConfig and for every data collection,
\* sortedData is a permutation of data; two rows that compare equal keep their
\* order of data, and two rows that compare unequal are in comparator order
\* when ascending and in the reverse when descending.
C2_StableSortAnyData == rSortConfig # NoSort => SortedAsClaimed

\* The comparison is a consistent comparator on the rows of data: opposite
\* arguments give opposite signs, and "not after" is transitive.
ConsistentComparison ==
  LET cmp(i, j) == PrimaryCmp(data[i], data[j], rSortConfig, columns)
      n == Len(data)
  IN /\ \A i, j \in 1..n : (cmp(i, j) < 0 <=> cmp(j, i) > 0) /\ (cmp(i, j) = 0 <=> cmp(j, i) = 0)
     /\ \A i, j, k \in 1..n : (cmp(i, j) <= 0 /\ cmp(j, k) <= 0) => cmp(i, k) <= 0

\* C2, amended: the same, for the data collections on which the comparison is a
\* consistent comparator.
C2_StableSort == (rSortConfig # NoSort /\ ConsistentComparison) => SortedAsClaimed

\* A descending sort by a custom sorter of three rows, with a tie and a non-tie,
\* that reorders the rows.
C2_Witness ==
  /\ rSortConfig # NoSort
  /\ ConsistentComparison
  /\ rSortConfig.direction = "descending"
  /\ columns[FindCol(columns, rSortConfig.key)].sorter # "none"
  /\ Len(data) = 3
  /\ \E i, j \in 1..3 : i < j /\ PrimaryCmp(data[i], data[j], rSortConfig, columns) = 0
  /\ \E i, j \in 1..3 : i < j /\ PrimaryCmp(data[i], data[j], rSortConfig, columns) < 0
  /\ sortedData # data

\* ------------------------------------------------------------- selection claims (Spec)

\* C3: every render uses a selection that is a subset of the ids of its data,
\* and the render that first receives a replaced data reference uses the empty
\* selection.
C3_SelectionWithinData ==
  /\ rSelectedRowIds \subseteq IdSet(data)
  /\ freshData => rSelectedRowIds = {}

\* C4: once the effects of a commit that shows the header checkbox have run and
\* no update is pending, the checkbox is checked iff every row is selected and
\* there is a row, and indeterminate iff some but not all rows are selected.
C4_HeaderTriState ==
  (HeaderMounted(data, loading, selectable) /\ effectsPending = {} /\ ~renderPending) =>
    /\ selectAllRef.current = "input"
    /\ HeaderChecked <=> (Cardinality(selectedRowIds) = Len(data) /\ Len(data) > 0)
    /\ selectAllRef.indeterminate <=> (0 < Cardinality(selectedRowIds) /\ Cardinality(selectedRowIds) < Len(data))

LastHandled == handled[Len(handled)]

\* C5: right after a checkbox handler, the list it passed to onRowSelect holds
\* rows of data in data order whose ids are exactly the selection the component
\* now holds; select-all checked passes every row, unchecked passes none.
C5_PayloadIsSelection ==
  (handled # <<>> /\ LastHandled.op \in {"selectAll", "selectRow"}) =>
    /\ lastPayload = FilterSelected(data, IdSet(lastPayload))
    /\ IdSet(lastPayload) = selectedRowIds
    /\ LastHandled.op = "selectAll" => lastPayload = IF LastHandled.checked THEN data ELSE <<>>

\* C6: the list most recently passed to onRowSelect (empty before any call) has
\* exactly the ids of the selection the component holds.
C6_CallbackTracksSelection == IdSet(lastPayload) = selectedRowIds

\* C10: when two per-row change events for different rows are handled between
\* two commits, the selection and the last list passed to onRowSelect reflect
\* both toggles.
C10_TogglesNotLost ==
  (Len(handled) = 2 /\ handled[1].op = "selectRow" /\ handled[2].op = "selectRow" /\ handled[1].id # handled[2].id) =>
    \A k \in 1..2 :
      /\ (handled[k].id \in selectedRowIds) <=> handled[k].checked
      /\ (handled[k].id \in IdSet(lastPayload)) <=> handled[k].checked

\* ------------------------------------------------------------- InputField claims (SpecInput)

\* C7: aria-describedby names the error text iff it is rendered, the helper
\* text iff it is rendered and the error text is not, and nothing iff neither
\* is rendered.
C7_DescribedByRendered ==
  /\ DescribedById(inputProps) = "error" <=> ErrorRendered(inputProps)
  /\ DescribedById(inputProps) = "help" <=> (HelperRendered(inputProps) /\ ~ErrorRendered(inputProps))
  /\ DescribedById(inputProps) = Undefined <=> (~HelperRendered(inputProps) /\ ~ErrorRendered(inputProps))

\* C8: the error text is shown iff invalid and a non-empty errorMessage is
\* given; in every other case the helper text is shown iff a non-empty
\* helperText is given; the two are never shown together.
C8_HelperOrError ==
  /\ ErrorRendered(inputProps) <=> (inputProps.invalid /\ Truthy(inputProps.errorMessage))
  /\ ~ErrorRendered(inputProps) => (HelperRendered(inputProps) <=> Truthy(inputProps.helperText))
  /\ ~(ErrorRendered(inputProps) /\ HelperRendered(inputProps))

\* C9: the clear button is rendered iff showClearButton, a non-empty value and
\* an input that is not disabled (disabled or loading); activating it leaves
\* the value and the local state as they were.
C9_ClearAffordance ==
  /\ ClearButtonRendered(inputProps) <=> (inputProps.showClearButton /\ Truthy(inputProps.value) /\ ~InputDisabled(inputProps))
  /\ inputHist.op = "clear" => (inputProps.value = inputHist.value /\ isPasswordVisible = inputHist.visible)
====
